---- MODULE Spec2Model ----
(***************************************************************************)
(* Model of script/setup/getToken.mts: the OAuth 2.0 device-flow script.   *)
(* One sequential process; the environment (GitHub's two endpoints, the   *)
(* user at the keyboard, the wall clock, the file system) is drawn with   *)
(* \E from small sets.  Time is counted in whole seconds.                  *)
(***************************************************************************)
EXTENDS Integers, Sequences, FiniteSets, TLC

(***************************************************************************)
(* Bounds of the model.                                                    *)
(***************************************************************************)
MaxExpires == 3      \* largest expires_in the server answers (seconds)
MaxInterval == 2     \* largest interval the server answers (seconds)
MaxPolls == 4        \* cap on token requests of one run (interval 0 never ends)
MaxLatency == 1      \* longest a token request takes (seconds)
MaxKeyWait == 1      \* longest the user waits before pressing a key (seconds)

(***************************************************************************)
(* Program constants.                                                      *)
(***************************************************************************)
OpenTimeout == 5     \* setTimeout(resolve, 5000) raced against open()
SlowDownPause == 1   \* setTimeout(resolve, 1000) on slow_down
CtrlC == 3           \* byteArray[0] === 3

(***************************************************************************)
(* JavaScript values.  A number is [k |-> "num", v |-> n]; NaN, Infinity   *)
(* and undefined are values of their own, as in the arithmetic of the     *)
(* poll budget (lines 134-139, 182).                                      *)
(***************************************************************************)
Num(n) == [k |-> "num", v |-> n]
NaN == [k |-> "NaN", v |-> 0]
Infinity == [k |-> "Infinity", v |-> 0]
Undefined == [k |-> "undefined", v |-> 0]

IsNum(x) == x.k = "num"

\* ToNumber(undefined) is NaN
ToNumber(x) == IF x.k = "undefined" THEN NaN ELSE x

\* integer arithmetic, where dividing by zero gives no attempt at all
JSFloorDiv_ZeroDivisorIsZero(a, b) ==
    LET x == ToNumber(a)
        y == ToNumber(b)
    IN  IF x.k = "NaN" \/ y.k = "NaN" THEN NaN
        ELSE IF x.k = "Infinity" /\ y.k = "Infinity" THEN NaN
        ELSE IF x.k = "Infinity" THEN Infinity
        ELSE IF y.k = "Infinity" THEN Num(0)
        ELSE IF y.v = 0 THEN Num(0)
        ELSE Num(x.v \div y.v)

\* a / b for undefined, NaN, Infinity and integers a >= 0, b >= 0; the
\* quotient of two integers is kept as the pair the floor is taken of
JSFloorDiv(a, b) ==
    LET x == ToNumber(a)
        y == ToNumber(b)
    IN  IF x.k = "NaN" \/ y.k = "NaN" THEN NaN
        ELSE IF x.k = "Infinity" /\ y.k = "Infinity" THEN NaN
        ELSE IF x.k = "Infinity" THEN Infinity
        ELSE IF y.k = "Infinity" THEN Num(0)
        ELSE IF y.v = 0 THEN (IF x.v = 0 THEN NaN ELSE Infinity)
        ELSE Num(x.v \div y.v)

\* a - b
JSSub(a, b) ==
    LET x == ToNumber(a)
        y == ToNumber(b)
    IN  IF x.k = "NaN" \/ y.k = "NaN" THEN NaN
        ELSE IF x.k = "Infinity" /\ y.k = "Infinity" THEN NaN
        ELSE IF x.k = "Infinity" THEN Infinity
        ELSE IF y.k = "Infinity" THEN NaN   \* -Infinity never arises here
        ELSE Num(x.v - y.v)

\* a > 0
JSPositive(a) ==
    LET x == ToNumber(a)
    IN  x.k = "Infinity" \/ (x.k = "num" /\ x.v > 0)

\* n < b for an integer n
JSLess(n, b) ==
    LET y == ToNumber(b)
    IN  y.k = "Infinity" \/ (y.k = "num" /\ n < y.v)

(***************************************************************************)
(* Strings of the .env file.  A string is a sequence of lexical units:     *)
(* the newline, a blank, the key prefix, and opaque words (a token, the   *)
(* text of an unrelated line).                                             *)
(***************************************************************************)
NL == "\n"
Blank == " "
TokenPrefix == "GITHUB_OAUTH_TOKEN="
NoFile == <<"<absent>">>

RECURSIVE Split(_)
\* raw.split('\n')
Split(raw) ==
    IF \A i \in 1..Len(raw) : raw[i] # NL THEN <<raw>>
    ELSE LET i == CHOOSE j \in 1..Len(raw) :
                      raw[j] = NL /\ \A m \in 1..(j - 1) : raw[m] # NL
         IN  <<SubSeq(raw, 1, i - 1)>> \o Split(SubSeq(raw, i + 1, Len(raw)))

RECURSIVE Join(_)
\* lines.join('\n')
Join(lines) ==
    IF lines = <<>> THEN <<>>
    ELSE IF Len(lines) = 1 THEN lines[1]
    ELSE lines[1] \o <<NL>> \o Join(Tail(lines))

\* line.startsWith('GITHUB_OAUTH_TOKEN=')
StartsWithPrefix(line) == Len(line) >= 1 /\ line[1] = TokenPrefix

\* line.trim() !== ''
TrimNonEmpty(line) == \E i \in 1..Len(line) : line[i] # Blank

\* mutant: the filter of line 205 keeps the token lines and drops the others
NotTokenLine_Inverted(line) == StartsWithPrefix(line)

\* mutant: the filter of line 205 drops nothing
NotTokenLine_KeepsAll(line) == TRUE

\* line 205: !line.startsWith('GITHUB_OAUTH_TOKEN=')
NotTokenLine(line) == ~StartsWithPrefix(line)

\* lines 204-208: the new content of .env
EnvResult(raw, token) ==
    Join(SelectSeq(SelectSeq(Split(raw), NotTokenLine) \o <<(<<TokenPrefix, token>>)>>,
                   TrimNonEmpty))

\* line 203: fs.existsSync('.env') ? fs.readFileSync('.env', 'utf8') : ''
ReadEnv(file) == IF file = NoFile THEN <<>> ELSE file

(***************************************************************************)
(* The two endpoints' answers.                                             *)
(***************************************************************************)
\* a field the JSON body does not carry
Absent == "<undefined>"

UserCodes == {"WDJB-MJHT"}
DeviceCodes == {"dc-3584d83530557fdd", "dc-71c0a1f2e9b44d06"}
VerificationUris == {"https://github.com/login/device"}
Tokens == {"gho_tok1", "gho_tok2"}

\* a complete device-authorization response, as the documentation of the
\* endpoint describes it
FullResponses ==
    [user_code : UserCodes, device_code : DeviceCodes,
     verification_uri : VerificationUris,
     expires_in : {Num(n) : n \in 0..MaxExpires},
     interval : {Num(n) : n \in 1..MaxInterval}]

\* a response that lacks one field, or has it empty or zero
PartialResponses ==
    LET base == [user_code |-> "WDJB-MJHT", device_code |-> "dc-3584d83530557fdd",
                 verification_uri |-> "https://github.com/login/device",
                 expires_in |-> Num(MaxExpires), interval |-> Num(1)]
    IN  {[base EXCEPT !.user_code = x] : x \in {Absent, ""}}
        \cup {[base EXCEPT !.device_code = x] : x \in {Absent, ""}}
        \cup {[base EXCEPT !.verification_uri = Absent]}
        \cup {[base EXCEPT !.expires_in = Undefined]}
        \cup {[base EXCEPT !.interval = Undefined]}
        \cup {[base EXCEPT !.interval = Num(0)]}
        \cup {[base EXCEPT !.expires_in = Num(0), !.interval = Num(0)]}
        \cup {[base EXCEPT !.user_code = Absent, !.device_code = Absent]}

\* a complete response with the longest interval and room for two turns
\* of the loop
SlowResponses ==
    {[user_code |-> "WDJB-MJHT", device_code |-> "dc-3584d83530557fdd",
      verification_uri |-> "https://github.com/login/device",
      expires_in |-> Num(2 * MaxInterval), interval |-> Num(MaxInterval)]}

DeviceResponses == FullResponses \cup PartialResponses \cup SlowResponses

\* !x for a string field
Falsy(x) == x = Absent \/ x = ""

TokenErrors == {"authorization_pending", "slow_down", "expired_token", "access_denied"}

\* what one token request ends with: an exception thrown by fetch() or by
\* json(), or a JSON body: a token, an error, neither ({}), or a token
\* together with an error
TokenResponses ==
    {[threw |-> TRUE, access_token |-> Absent, error |-> Absent]}
    \cup [threw : {FALSE}, access_token : Tokens, error : {Absent}]
    \cup [threw : {FALSE}, access_token : {Absent}, error : TokenErrors \cup {Absent}]
    \cup {[threw |-> FALSE, access_token |-> "gho_tok1", error |-> "access_denied"],
          [threw |-> FALSE, access_token |-> "gho_tok2", error |-> "expired_token"]}

\* the bytes of the 'data' event the prompt waits for: Ctrl+C, Enter, nothing
KeyData == {<<CtrlC>>, <<13>>, <<>>}

\* the .env files a run may start with
InitFiles ==
    {NoFile,
     <<"EDITOR=vim", NL, TokenPrefix, "gho_old", NL>>}

(***************************************************************************)
(* State.                                                                  *)
(***************************************************************************)
VARIABLES
    pc,           \* where the script is
    isTTY,        \* process.stdin.isTTY
    response1,    \* the device-authorization response (line 97)
    expiresIn,    \* line 134
    attempts,     \* line 136
    maxAttempts,  \* line 137
    accessToken,  \* line 135
    envFile,      \* the content of .env
    env0,         \* history: the content of .env when the script started
    writes,       \* history: number of writeFileSync calls
    exitCode,     \* the argument of process.exit, once pc = "exited"
    console,      \* what console.log / console.error / stdout.write printed
    now,          \* the wall clock: seconds since the device authorization
                  \* was issued (0 until then)
    requests,     \* history: number of token requests issued
    responses,    \* history: what each token request ended with
    sleeps,       \* history: sleeps[n] is the time slept after response n
    rawMode,      \* process.stdin is in raw mode (lines 22, 33)
    deviceRequests, \* history: number of device-code requests sent
    opened,       \* history: open() was called
    reads,        \* history: number of existsSync / readFileSync calls on .env
    ctrlC,        \* history: where the script was when the user pressed
                  \* Ctrl+C: "" (never), "prompt", or a suspension point
    approvedAt,   \* the user: when the authorization was approved at GitHub
                  \* (seconds, as now), or NotApproved
    sent,         \* history: the bodies of the token requests sent so far
    lastRun       \* history: the file and the token of the run before, if it saved

vars ==
    <<pc, isTTY, response1, expiresIn, attempts, maxAttempts, accessToken, envFile,
      env0, writes, exitCode, console, now, requests, responses, sleeps,
      rawMode, deviceRequests, opened, reads, ctrlC, approvedAt, sent, lastRun>>

\* the user has not approved the authorization
NotApproved == -1

\* no run before this one has saved a token
NoLastRun == [file |-> NoFile, token |-> Absent]

NoResponse ==
    [user_code |-> Absent, device_code |-> Absent, verification_uri |-> Absent,
     expires_in |-> Undefined, interval |-> Undefined]

\* one printed line: what it says and the values it shows
Line(msg, shows) == [msg |-> msg, shows |-> shows]

\* console.log of an object prints every field it carries
Fields(r) == {r.user_code, r.device_code, r.verification_uri} \ {Absent}

Init ==
    /\ pc = "entry"
    /\ isTTY \in BOOLEAN
    /\ response1 = NoResponse
    /\ expiresIn = Undefined
    /\ attempts = 0
    /\ maxAttempts = Undefined
    /\ accessToken = Absent
    /\ envFile \in InitFiles
    /\ env0 = envFile
    /\ writes = 0
    /\ exitCode = 0
    /\ console = {}
    /\ now = 0
    /\ requests = 0
    /\ responses = <<>>
    /\ sleeps = <<>>
    /\ rawMode = FALSE
    /\ deviceRequests = 0
    /\ opened = FALSE
    /\ reads = 0
    /\ ctrlC = ""
    /\ approvedAt = NotApproved
    /\ sent = <<>>
    /\ lastRun = NoLastRun

\* mutant: every process.exit reports success
Exit_AlwaysZero(code, printed) ==
    /\ pc' = "exited"
    /\ exitCode' = 0
    /\ console' = console \cup printed

\* process.exit(code), after printing
Exit(code, printed) ==
    /\ pc' = "exited"
    /\ exitCode' = code
    /\ console' = console \cup printed

(***************************************************************************)
(* Module entry, lines 235-245, and the device-code request, lines 59-97.  *)
(***************************************************************************)
\* mutant: no test of process.stdin.isTTY before main()
EntryNotTTY_Proceeds ==
    /\ pc = "entry"
    /\ ~isTTY
    /\ pc' = "request1"
    /\ console' = console \cup {Line("Step 1: Requesting device authorization", {})}
    /\ deviceRequests' = deviceRequests + 1
    /\ UNCHANGED <<isTTY, response1, expiresIn, attempts, maxAttempts,
                   accessToken, envFile, exitCode, now, requests, responses,
                   sleeps, env0, writes, opened, reads, ctrlC, rawMode,
                   approvedAt, sent, lastRun>>

\* lines 236-240
EntryNotTTY ==
    /\ pc = "entry"
    /\ ~isTTY
    /\ Exit(0, {Line("Not running in a TTY environment", {})})
    /\ UNCHANGED <<isTTY, response1, expiresIn, attempts, maxAttempts,
                   accessToken, envFile, now, requests, responses, sleeps,
                   env0, writes, deviceRequests, opened, reads, ctrlC,
                   rawMode, approvedAt, sent, lastRun>>

\* lines 242, 59-86: main() prints the banner and sends the device-code request
EntryMain ==
    /\ pc = "entry"
    /\ isTTY
    /\ pc' = "request1"
    /\ console' = console \cup {Line("Step 1: Requesting device authorization", {})}
    /\ deviceRequests' = deviceRequests + 1
    /\ UNCHANGED <<isTTY, response1, expiresIn, attempts, maxAttempts,
                   accessToken, envFile, exitCode, now, requests, responses,
                   sleeps, env0, writes, opened, reads, ctrlC, rawMode,
                   approvedAt, sent, lastRun>>

\* mutant: a failed device-code request is sent again
Request1Failed_Retries ==
    /\ pc = "request1"
    /\ deviceRequests < 3
    /\ deviceRequests' = deviceRequests + 1
    /\ UNCHANGED <<pc, isTTY, response1, expiresIn, attempts, maxAttempts,
                   accessToken, envFile, env0, writes, exitCode, console, now,
                   requests, responses, sleeps, rawMode, opened, reads, ctrlC,
                   approvedAt, sent, lastRun>>

\* lines 86-95: fetch throws, or the status is not ok
Request1Failed ==
    /\ pc = "request1"
    /\ Exit(1, {Line("Failed to request device code from GitHub", {})})
    /\ UNCHANGED <<isTTY, response1, expiresIn, attempts, maxAttempts,
                   accessToken, envFile, now, requests, responses, sleeps,
                   env0, writes, deviceRequests, opened, reads, ctrlC,
                   rawMode, approvedAt, sent, lastRun>>

\* line 97 throws on a body that is not JSON; lines 242-245 catch it
Request1BadBody ==
    /\ pc = "request1"
    /\ Exit(1, {Line("Unexpected error", {})})
    /\ UNCHANGED <<isTTY, response1, expiresIn, attempts, maxAttempts,
                   accessToken, envFile, now, requests, responses, sleeps,
                   env0, writes, deviceRequests, opened, reads, ctrlC,
                   rawMode, approvedAt, sent, lastRun>>

\* lines 86-97: the response arrives
Request1Ok ==
    /\ pc = "request1"
    /\ \E r \in DeviceResponses : response1' = r
    /\ pc' = "validate"
    /\ UNCHANGED <<isTTY, expiresIn, attempts, maxAttempts, accessToken,
                   envFile, exitCode, console, now, requests, responses,
                   sleeps, env0, writes, deviceRequests, opened, reads, ctrlC,
                   rawMode, approvedAt, sent, lastRun>>

\* line 99: the test that rejects a device-authorization response
InvalidDeviceResponse(r) == Falsy(r.user_code) \/ Falsy(r.device_code)

\* lines 99-103
RejectDeviceResponse ==
    /\ pc = "validate"
    /\ InvalidDeviceResponse(response1)
    /\ Exit(1, {Line("Invalid response from GitHub device authorization endpoint",
                     Fields(response1))})
    /\ UNCHANGED <<isTTY, response1, expiresIn, attempts, maxAttempts,
                   accessToken, envFile, now, requests, responses, sleeps,
                   env0, writes, deviceRequests, opened, reads, ctrlC,
                   rawMode, approvedAt, sent, lastRun>>

\* lines 105-119: the user code and the instructions, then the prompt
\* mutant: the page is opened without waiting for a key
DisplayUserCode_NoPrompt ==
    /\ pc = "validate"
    /\ ~InvalidDeviceResponse(response1)
    /\ pc' = "open"
    /\ console' = console \cup
          {Line("Device authorization requested successfully", {}),
           Line("COPY THIS CODE: ", {response1.user_code}),
           Line("Instructions", {}),
           Line("Opening GitHub authorization page", {})}
    /\ opened' = TRUE
    /\ UNCHANGED <<isTTY, response1, expiresIn, attempts, maxAttempts,
                   accessToken, envFile, exitCode, now, requests, responses,
                   sleeps, env0, writes, deviceRequests, reads, ctrlC, rawMode,
                   approvedAt, sent, lastRun>>

DisplayUserCode ==
    /\ pc = "validate"
    /\ ~InvalidDeviceResponse(response1)
    /\ pc' = "keypress"
    /\ console' = console \cup
          {Line("Device authorization requested successfully", {}),
           Line("COPY THIS CODE: ", {response1.user_code}),
           Line("Instructions", {})}
    /\ rawMode' = isTTY
    /\ UNCHANGED <<isTTY, response1, expiresIn, attempts, maxAttempts,
                   accessToken, envFile, exitCode, now, requests, responses,
                   sleeps, env0, writes, deviceRequests, opened, reads, ctrlC,
                   approvedAt, sent, lastRun>>

(***************************************************************************)
(* The prompt and the browser, lines 20-38 and 119-130.                    *)
(***************************************************************************)
\* history: the user's key was Ctrl+C
PressedCtrlC(data) == data # <<>> /\ Head(data) = CtrlC

\* mutant: the prompt does not look for Ctrl+C
Interrupted_Never(data) == FALSE

\* lines 26-31: the first byte of the data is 3
Interrupted(data) == Len(data) > 0 /\ data[1] = CtrlC

\* mutant: raw mode is not switched off when the prompt resolves
RawModeAfterKeypress_LeftOn == TRUE

\* lines 32-34: process.stdin.setRawMode(false)
RawModeAfterKeypress == FALSE

\* lines 25-31: Ctrl+C at the prompt
KeypressCtrlC ==
    /\ pc = "keypress"
    /\ \E d \in 0..MaxKeyWait, data \in KeyData :
          /\ Interrupted(data)
          /\ now' = now + d
          /\ ctrlC' = IF PressedCtrlC(data) THEN "prompt" ELSE ctrlC
    /\ Exit(1, {Line("^C", {})})
    /\ UNCHANGED <<isTTY, response1, expiresIn, attempts, maxAttempts,
                   accessToken, envFile, requests, responses, sleeps, env0,
                   writes, deviceRequests, opened, reads, rawMode, approvedAt,
                   sent, lastRun>>

\* lines 25-36, 122-125: any other data resolves the prompt; open() is called
KeypressContinue ==
    /\ pc = "keypress"
    /\ \E d \in 0..MaxKeyWait, data \in KeyData :
          /\ ~Interrupted(data)
          /\ now' = now + d
          /\ ctrlC' = IF PressedCtrlC(data) THEN "prompt" ELSE ctrlC
    /\ pc' = "open"
    /\ console' = console \cup {Line("Opening GitHub authorization page", {})}
    /\ rawMode' = IF isTTY THEN RawModeAfterKeypress ELSE rawMode
    /\ opened' = TRUE
    /\ UNCHANGED <<isTTY, response1, expiresIn, attempts, maxAttempts,
                   accessToken, envFile, exitCode, requests, responses,
                   sleeps, env0, writes, deviceRequests, reads, approvedAt,
                   sent, lastRun>>

\* how long open() may take: it resolves at once, or the 5 s timer wins
OpenWaits == {0, OpenTimeout}

\* mutant: the ceiling is rounded up
MaxAttempts_Ceil(r) ==
    IF IsNum(r.expires_in) /\ IsNum(r.interval) /\ r.interval.v > 0
    THEN Num((r.expires_in.v + r.interval.v - 1) \div r.interval.v)
    ELSE JSFloorDiv(r.expires_in, r.interval)

\* line 137
MaxAttempts(r) == JSFloorDiv(r.expires_in, r.interval)

\* lines 125-137: open() resolves, rejects, or loses the race against the
\* 5 s timer; then the poll loop's variables are set
OpenBrowser ==
    /\ pc = "open"
    /\ \E d \in OpenWaits, rejected \in BOOLEAN :
          /\ now' = now + d
          /\ console' = console \cup
                {IF rejected
                 THEN Line("Please manually navigate to: ",
                           {response1.verification_uri} \ {Absent})
                 ELSE Line("If the page didn't open automatically, please visit: ",
                           {response1.verification_uri} \ {Absent}),
                 Line("Waiting for authorization", {})}
    /\ expiresIn' = response1.expires_in
    /\ attempts' = 0
    /\ maxAttempts' = MaxAttempts(response1)
    /\ pc' = "loop"
    /\ UNCHANGED <<isTTY, response1, accessToken, envFile, exitCode, requests,
                   responses, sleeps, env0, writes, deviceRequests, opened,
                   reads, ctrlC, rawMode, approvedAt, sent, lastRun>>

(***************************************************************************)
(* The poll loop, lines 139-184.                                           *)
(***************************************************************************)
\* mutant: while (true), left only by break or process.exit
LoopGuard_Forever(e, a, m) == TRUE

\* line 139: while (expiresIn > 0 && attempts < maxAttempts)
LoopGuard(e, a, m) == JSPositive(e) /\ JSLess(a, m)

\* lines 9-14 and 141-147: the JSON body of a token request
CLIENT_ID == "01ab8ac9400c4e429b23"
DeviceCodeGrant == "urn:ietf:params:oauth:grant-type:device_code"

\* mutant: the user code is sent where the device code belongs
TokenRequest_SendsUserCode(r) ==
    [client_id |-> CLIENT_ID, device_code |-> r.user_code,
     grant_type |-> DeviceCodeGrant]

TokenRequest(r) ==
    [client_id |-> CLIENT_ID, device_code |-> r.device_code,
     grant_type |-> DeviceCodeGrant]

\* mutant: the fetch of line 142 is not awaited: the next turn may send its
\* request while the last one is unanswered
IssuePoll_NoAwait ==
    /\ pc \in {"loop", "fetch"}
    /\ LoopGuard(expiresIn, attempts, maxAttempts)
    /\ requests < MaxPolls
    /\ attempts' = attempts + 1
    /\ requests' = requests + 1
    /\ sent' = Append(sent, TokenRequest(response1))
    /\ pc' = "fetch"
    /\ UNCHANGED <<isTTY, response1, expiresIn, maxAttempts, accessToken,
                   envFile, exitCode, console, now, responses, sleeps, env0,
                   writes, deviceRequests, opened, reads, ctrlC, rawMode,
                   approvedAt, lastRun>>

\* lines 139-155: one more turn: the token request is sent
IssuePoll ==
    /\ pc = "loop"
    /\ LoopGuard(expiresIn, attempts, maxAttempts)
    /\ requests < MaxPolls
    /\ attempts' = attempts + 1
    /\ requests' = requests + 1
    /\ sent' = Append(sent, TokenRequest(response1))
    /\ pc' = "fetch"
    /\ UNCHANGED <<isTTY, response1, expiresIn, maxAttempts, accessToken,
                   envFile, exitCode, console, now, responses, sleeps, env0,
                   writes, deviceRequests, opened, reads, ctrlC, rawMode,
                   approvedAt, lastRun>>

\* line 139: the loop ends
LoopExit ==
    /\ pc = "loop"
    /\ ~LoopGuard(expiresIn, attempts, maxAttempts)
    /\ pc' = "afterLoop"
    /\ UNCHANGED <<isTTY, response1, expiresIn, attempts, maxAttempts,
                   accessToken, envFile, exitCode, console, now, requests,
                   responses, sleeps, env0, writes, deviceRequests, opened,
                   reads, ctrlC, rawMode, approvedAt, sent, lastRun>>

\* mutant: the error field is looked at before the token
Classify_ErrorFirst(r) ==
    IF r.threw THEN "error"
    ELSE IF r.error = "authorization_pending" THEN "pending"
    ELSE IF r.error = "slow_down" THEN "slow_down"
    ELSE IF r.error = "expired_token" THEN "expired_token"
    ELSE IF r.error = "access_denied" THEN "access_denied"
    ELSE IF r.access_token # Absent THEN "granted"
    ELSE "unexpected"

\* lines 154-180: the branch a token response takes
Classify(r) ==
    IF r.threw THEN "error"
    ELSE IF r.access_token # Absent THEN "granted"
    ELSE IF r.error = "authorization_pending" THEN "pending"
    ELSE IF r.error = "slow_down" THEN "slow_down"
    ELSE IF r.error = "expired_token" THEN "expired_token"
    ELSE IF r.error = "access_denied" THEN "access_denied"
    ELSE "unexpected"

\* mutant: the granted branch without its break
AfterPoll_NoBreak(kind) ==
    CASE kind = "slow_down" -> "pause"
      [] kind \in {"expired_token", "access_denied"} -> "exited"
      [] OTHER -> "sleep"

\* mutant: the access_denied branch without its process.exit
AfterPoll_DeniedGoesOn(kind) ==
    CASE kind = "granted" -> "afterLoop"
      [] kind = "slow_down" -> "pause"
      [] kind = "expired_token" -> "exited"
      [] OTHER -> "sleep"

\* mutant: the expired_token branch without its process.exit
AfterPoll_ExpiredGoesOn(kind) ==
    CASE kind = "granted" -> "afterLoop"
      [] kind = "slow_down" -> "pause"
      [] kind = "access_denied" -> "exited"
      [] OTHER -> "sleep"

\* mutant: a malformed body or a failed request ends the script
AfterPoll_TransientExits(kind) ==
    CASE kind = "granted" -> "afterLoop"
      [] kind = "slow_down" -> "pause"
      [] kind \in {"expired_token", "access_denied", "unexpected", "error"} -> "exited"
      [] OTHER -> "sleep"

\* lines 158-180: where each branch leaves the script: break, the 1 s pause,
\* process.exit, or on to line 182
AfterPoll(kind) ==
    CASE kind = "granted" -> "afterLoop"
      [] kind = "slow_down" -> "pause"
      [] kind \in {"expired_token", "access_denied"} -> "exited"
      [] OTHER -> "sleep"

\* mutant: the success line shows the token it reports
PollLine_ShowsToken(kind, r) ==
    CASE kind = "granted" -> Line("Authorization successful!", {r.access_token})
      [] kind = "pending" -> Line("...", {})
      [] kind = "slow_down" -> Line("Slowing down polling rate", {})
      [] kind = "expired_token" ->
            Line("Device code has expired. Please run the script again.", {})
      [] kind = "access_denied" ->
            Line("Authorization was denied. Please run the script again if you want to authorize.", {})
      [] kind = "unexpected" -> Line("Unexpected response:", {r.error, r.access_token} \ {Absent})
      [] OTHER -> Line("Error polling for token:", {})

\* lines 160-179: what each branch prints; line 176 prints the whole body
PollLine(kind, r) ==
    CASE kind = "granted" -> Line("Authorization successful!", {})
      [] kind = "pending" -> Line("...", {})
      [] kind = "slow_down" -> Line("Slowing down polling rate", {})
      [] kind = "expired_token" ->
            Line("Device code has expired. Please run the script again.", {})
      [] kind = "access_denied" ->
            Line("Authorization was denied. Please run the script again if you want to authorize.", {})
      [] kind = "unexpected" -> Line("Unexpected response:", {r.error, r.access_token} \ {Absent})
      [] OTHER -> Line("Error polling for token:", {})

\* lines 155-180: the token request ends with r after d seconds; once the
\* user has approved, the endpoint answers with the token
PollAnswered(kind) ==
    /\ pc = "fetch"
    /\ approvedAt # NotApproved => kind = "granted"
    /\ \E d \in 0..MaxLatency, r \in TokenResponses :
          /\ Classify(r) = kind
          /\ now' = now + d
          /\ responses' = Append(responses, r)
          /\ console' = console \cup {PollLine(kind, r)}
          /\ accessToken' = IF kind = "granted" THEN r.access_token ELSE accessToken
    /\ pc' = AfterPoll(kind)
    /\ exitCode' = IF AfterPoll(kind) = "exited" THEN 1 ELSE exitCode
    /\ sleeps' = IF AfterPoll(kind) \in {"pause", "sleep"} THEN Append(sleeps, 0)
                 ELSE sleeps
    /\ UNCHANGED <<isTTY, response1, expiresIn, attempts, maxAttempts,
                   envFile, requests, env0, writes, deviceRequests, opened,
                   reads, ctrlC, rawMode, approvedAt, sent, lastRun>>

PollGranted == PollAnswered("granted")
PollPending == PollAnswered("pending")
PollSlowDown == PollAnswered("slow_down")
PollExpiredToken == PollAnswered("expired_token")
PollAccessDenied == PollAnswered("access_denied")
PollUnexpected == PollAnswered("unexpected")
PollThrew == PollAnswered("error")

\* mutant: the extra second is taken off the expiry budget
SlowDownWait_Deducts ==
    /\ pc = "pause"
    /\ now' = now + SlowDownPause
    /\ sleeps' = [sleeps EXCEPT ![Len(sleeps)] = @ + SlowDownPause]
    /\ expiresIn' = JSSub(expiresIn, Num(SlowDownPause))
    /\ pc' = "sleep"
    /\ UNCHANGED <<isTTY, response1, attempts, maxAttempts,
                   accessToken, envFile, exitCode, console, requests,
                   responses, env0, writes, deviceRequests, opened, reads,
                   ctrlC, rawMode, approvedAt, sent, lastRun>>

\* line 168: the extra second after slow_down
SlowDownWait ==
    /\ pc = "pause"
    /\ now' = now + SlowDownPause
    /\ sleeps' = [sleeps EXCEPT ![Len(sleeps)] = @ + SlowDownPause]
    /\ pc' = "sleep"
    /\ UNCHANGED <<isTTY, response1, expiresIn, attempts, maxAttempts,
                   accessToken, envFile, exitCode, console, requests,
                   responses, env0, writes, deviceRequests, opened, reads,
                   ctrlC, rawMode, approvedAt, sent, lastRun>>

\* mutant: the loop does not sleep between two turns
SleepSeconds_None(r) == 0

\* line 183: setTimeout(resolve, 1000 * interval), in seconds
SleepSeconds(r) == IF IsNum(r.interval) THEN r.interval.v ELSE 0

\* line 182: expiresIn -= response1.interval
Countdown(e, r) == JSSub(e, r.interval)

\* lines 182-183
Sleep ==
    /\ pc = "sleep"
    /\ expiresIn' = Countdown(expiresIn, response1)
    /\ now' = now + SleepSeconds(response1)
    /\ sleeps' = [sleeps EXCEPT ![Len(sleeps)] = @ + SleepSeconds(response1)]
    /\ pc' = "loop"
    /\ UNCHANGED <<isTTY, response1, attempts, maxAttempts, accessToken,
                   envFile, exitCode, console, requests, responses, env0,
                   writes, deviceRequests, opened, reads, ctrlC, rawMode,
                   approvedAt, sent, lastRun>>

(***************************************************************************)
(* After the loop, lines 186-232.                                          *)
(***************************************************************************)
\* mutant: no test of accessToken === undefined before the save
TimedOut_SavesUndefined ==
    /\ pc = "afterLoop"
    /\ accessToken = Absent
    /\ writes' = writes + 1
    /\ envFile' = EnvResult(ReadEnv(envFile), "undefined")
    /\ pc' = "exited"
    /\ exitCode' = 0
    /\ console' = console \cup {[msg |-> "Token saved to .env file successfully",
                                 shows |-> {}]}
    /\ reads' = reads + 1
    /\ UNCHANGED <<isTTY, response1, expiresIn, attempts, maxAttempts,
                   accessToken, now, requests, responses, sleeps, env0,
                   deviceRequests, opened, ctrlC, rawMode, approvedAt, sent,
                   lastRun>>

\* lines 186-196
TimedOut ==
    /\ pc = "afterLoop"
    /\ accessToken = Absent
    /\ Exit(1, {Line("Timed out waiting for authorization", {})})
    /\ UNCHANGED <<isTTY, response1, expiresIn, attempts, maxAttempts,
                   accessToken, envFile, now, requests, responses, sleeps,
                   env0, writes, deviceRequests, opened, reads, ctrlC,
                   rawMode, approvedAt, sent, lastRun>>

\* mutant: the device code is stored in place of the access token
SaveToken_StoresDeviceCode ==
    /\ pc = "afterLoop"
    /\ accessToken # Absent
    /\ writes' = writes + 1
    /\ envFile' = EnvResult(ReadEnv(envFile), response1.device_code)
    /\ Exit(0, {Line("Saving token to .env file", {}),
                Line("Token saved to .env file successfully", {})})
    /\ reads' = reads + 1
    /\ UNCHANGED <<isTTY, response1, expiresIn, attempts, maxAttempts,
                   accessToken, now, requests, responses, sleeps, env0,
                   deviceRequests, opened, ctrlC, rawMode, approvedAt, sent,
                   lastRun>>

\* lines 199-224: .env is rewritten
SaveToken ==
    /\ pc = "afterLoop"
    /\ accessToken # Absent
    /\ writes' = writes + 1
    /\ envFile' = EnvResult(ReadEnv(envFile), accessToken)
    /\ Exit(0, {Line("Saving token to .env file", {}),
                Line("Token saved to .env file successfully", {})})
    /\ reads' = reads + 1
    /\ UNCHANGED <<isTTY, response1, expiresIn, attempts, maxAttempts,
                   accessToken, now, requests, responses, sleeps, env0,
                   deviceRequests, opened, ctrlC, rawMode, approvedAt, sent,
                   lastRun>>

\* what a writeFileSync that throws may leave: the file as it was (open
\* failed), or a proper prefix of the new content (truncated, then cut short)
AfterFailedWrite(old, new) ==
    {old} \cup {SubSeq(new, 1, n) : n \in 0..(Len(new) - 1)}

\* mutant: the catch reports the failure without the token
SaveFailedLines_NoToken(token) ==
    {Line("Saving token to .env file", {}),
     Line("Failed to save token to .env file", {})}

\* lines 225-231: what the catch prints
SaveFailedLines(token) ==
    {Line("Saving token to .env file", {}),
     Line("Failed to save token to .env file", {}),
     Line("You can manually add this line to your .env file:", {}),
     Line(TokenPrefix, {token})}

\* lines 203, 225-231: readFileSync throws
SaveReadFails ==
    /\ pc = "afterLoop"
    /\ accessToken # Absent
    /\ envFile # NoFile
    /\ Exit(1, SaveFailedLines(accessToken))
    /\ reads' = reads + 1
    /\ UNCHANGED <<isTTY, response1, expiresIn, attempts, maxAttempts,
                   accessToken, envFile, now, requests, responses, sleeps,
                   env0, writes, deviceRequests, opened, ctrlC, rawMode,
                   approvedAt, sent, lastRun>>

\* lines 210, 225-231: writeFileSync throws
SaveWriteFails ==
    /\ pc = "afterLoop"
    /\ accessToken # Absent
    /\ writes' = writes + 1
    /\ envFile' \in AfterFailedWrite(envFile, EnvResult(ReadEnv(envFile), accessToken))
    /\ Exit(1, SaveFailedLines(accessToken))
    /\ reads' = reads + 1
    /\ UNCHANGED <<isTTY, response1, expiresIn, attempts, maxAttempts,
                   accessToken, now, requests, responses, sleeps, env0,
                   deviceRequests, opened, ctrlC, rawMode, approvedAt, sent,
                   lastRun>>

(***************************************************************************)
(* Ctrl+C outside the prompt.  While the script awaits a network call, the *)
(* browser or a timer, no 'data' listener is installed and the script     *)
(* installs no SIGINT handler.  With stdin in cooked mode (never raw      *)
(* before line 22, switched back by line 33) the terminal turns Ctrl+C    *)
(* into SIGINT, whose default disposition ends the process at once; in    *)
(* raw mode the byte would reach stdin, where nobody reads it.             *)
(***************************************************************************)
SuspensionPoints == {"request1", "open", "fetch", "pause", "sleep"}

Sigint ==
    /\ pc \in SuspensionPoints
    /\ ctrlC = ""
    /\ ctrlC' = pc
    /\ pc' = IF rawMode THEN pc ELSE "killed"
    /\ UNCHANGED <<isTTY, response1, expiresIn, attempts, maxAttempts,
                   accessToken, envFile, env0, writes, exitCode, console, now,
                   requests, responses, sleeps, rawMode, deviceRequests,
                   opened, reads, approvedAt, sent, lastRun>>

Next ==
    \/ EntryNotTTY
    \/ EntryMain
    \/ Request1Failed
    \/ Request1BadBody
    \/ Request1Ok
    \/ RejectDeviceResponse
    \/ DisplayUserCode
    \/ KeypressCtrlC
    \/ KeypressContinue
    \/ OpenBrowser
    \/ IssuePoll
    \/ LoopExit
    \/ PollGranted
    \/ PollPending
    \/ PollSlowDown
    \/ PollExpiredToken
    \/ PollAccessDenied
    \/ PollUnexpected
    \/ PollThrew
    \/ SlowDownWait
    \/ Sleep
    \/ TimedOut
    \/ SaveToken
    \/ SaveReadFails
    \/ SaveWriteFails
    \/ Sigint

Spec == Init /\ [][Next]_vars

(***************************************************************************)
(* Progress.  The steps the script takes by itself: synchronous code, and  *)
(* awaits that a timer of the script ends (the two sleeps of the loop,    *)
(* and open(), raced against the 5 s timer of line 123).  The event loop  *)
(* runs each of them once it is due.  The other steps wait for somebody   *)
(* else: the two endpoints' answers, the user's key, the interrupt.  No   *)
(* timer of the script bounds these waits, and nothing is assumed about   *)
(* them.                                                                   *)
(***************************************************************************)
ScriptStep ==
    \/ EntryNotTTY
    \/ EntryMain
    \/ RejectDeviceResponse
    \/ DisplayUserCode
    \/ OpenBrowser
    \/ IssuePoll
    \/ LoopExit
    \/ SlowDownWait
    \/ Sleep
    \/ TimedOut
    \/ SaveToken
    \/ SaveReadFails
    \/ SaveWriteFails

LiveSpec == Init /\ [][Next]_vars /\ WF_vars(ScriptStep)

\* line 155: the awaited token request returns or throws
TokenAnswer ==
    \/ PollGranted
    \/ PollPending
    \/ PollSlowDown
    \/ PollExpiredToken
    \/ PollAccessDenied
    \/ PollUnexpected
    \/ PollThrew

(***************************************************************************)
(* The poll loop on its own, lines 134-232: a run taken up where the loop  *)
(* starts (line 139, first test of the guard) after a usable device       *)
(* response, integer expires_in > 0 and interval >= 1, the key pressed    *)
(* and the page opened at once, and followed to its end, in the runs in   *)
(* which every token request returns or fails in finite time.             *)
(***************************************************************************)
UsableResponses ==
    {r \in DeviceResponses :
        /\ ~InvalidDeviceResponse(r)
        /\ IsNum(r.expires_in) /\ r.expires_in.v > 0
        /\ IsNum(r.interval) /\ r.interval.v >= 1}

\* what lines 81-133 have printed when the loop starts
LoopStartConsole(r, rejected) ==
    {Line("Step 1: Requesting device authorization", {}),
     Line("Device authorization requested successfully", {}),
     Line("COPY THIS CODE: ", {r.user_code}),
     Line("Instructions", {}),
     Line("Opening GitHub authorization page", {}),
     IF rejected
     THEN Line("Please manually navigate to: ", {r.verification_uri} \ {Absent})
     ELSE Line("If the page didn't open automatically, please visit: ",
               {r.verification_uri} \ {Absent}),
     Line("Waiting for authorization", {})}

InitLoop ==
    /\ pc = "loop"
    /\ isTTY = TRUE
    /\ response1 \in UsableResponses
    /\ expiresIn = response1.expires_in
    /\ attempts = 0
    /\ maxAttempts = MaxAttempts(response1)
    /\ accessToken = Absent
    /\ envFile \in InitFiles
    /\ env0 = envFile
    /\ writes = 0
    /\ exitCode = 0
    /\ console = LoopStartConsole(response1, FALSE)
    /\ now = 0
    /\ requests = 0
    /\ responses = <<>>
    /\ sleeps = <<>>
    /\ rawMode = FALSE
    /\ deviceRequests = 1
    /\ opened = TRUE
    /\ reads = 0
    /\ ctrlC = ""
    /\ approvedAt = NotApproved
    /\ sent = <<>>
    /\ lastRun = NoLastRun

NextLoop ==
    \/ IssuePoll
    \/ LoopExit
    \/ PollGranted
    \/ PollPending
    \/ PollSlowDown
    \/ PollExpiredToken
    \/ PollAccessDenied
    \/ PollUnexpected
    \/ PollThrew
    \/ SlowDownWait
    \/ Sleep
    \/ TimedOut
    \/ SaveToken
    \/ SaveReadFails
    \/ SaveWriteFails
    \/ Sigint

LoopSpec ==
    InitLoop /\ [][NextLoop]_vars /\ WF_vars(ScriptStep) /\ WF_vars(TokenAnswer)

(***************************************************************************)
(* The user's approval as an event of its own.  Line 114 tells the user   *)
(* that the token is retrieved within `interval` seconds after approval.  *)
(* The user approves at most once, here while the script waits between    *)
(* two token requests (the page being open and no request in flight);     *)
(* from then on every token request is answered with the token.           *)
(***************************************************************************)
Approve ==
    /\ pc \in {"pause", "sleep"}
    /\ approvedAt = NotApproved
    /\ approvedAt' = now
    /\ UNCHANGED <<pc, isTTY, response1, expiresIn, attempts, maxAttempts,
                   accessToken, envFile, env0, writes, exitCode, console, now,
                   requests, responses, sleeps, rawMode, deviceRequests,
                   opened, reads, ctrlC, sent, lastRun>>

NextApproval ==
    \/ Next
    \/ Approve

ApprovalSpec == Init /\ [][NextApproval]_vars

(***************************************************************************)
(* The save step on its own, lines 198-232, over a wider set of .env       *)
(* files and over repeated runs of the script.  Nothing before line 203   *)
(* touches .env, so a run is taken up at the point where the loop has     *)
(* been left with a token: the state of the shortest successful run (one  *)
(* token request, answered with the token).                                *)
(***************************************************************************)
MaxLines == 3

\* the lines a .env file is made of: two unrelated settings, an empty
\* line, a whitespace-only line, an earlier token entry
LineKinds ==
    {<<"EDITOR=vim">>, <<"DEBUG=1">>, <<>>, <<Blank>>, <<TokenPrefix, "gho_old">>}

\* no file, or 1..MaxLines lines joined by newlines; a last empty line
\* makes a file that ends in a newline
SaveFiles ==
    {NoFile} \cup
    {Join(ls) : ls \in UNION {[1..n -> LineKinds] : n \in 1..MaxLines}}

SavePointResponse ==
    [user_code |-> "WDJB-MJHT", device_code |-> "dc-3584d83530557fdd",
     verification_uri |-> "https://github.com/login/device",
     expires_in |-> Num(MaxExpires), interval |-> Num(1)]

\* what lines 81-160 have printed when the first request returns the token
SavePointConsole ==
    {Line("Step 1: Requesting device authorization", {}),
     Line("Device authorization requested successfully", {}),
     Line("COPY THIS CODE: ", {SavePointResponse.user_code}),
     Line("Instructions", {}),
     Line("Opening GitHub authorization page", {}),
     Line("If the page didn't open automatically, please visit: ",
          {SavePointResponse.verification_uri}),
     Line("Waiting for authorization", {}),
     Line("Authorization successful!", {})}

InitSave ==
    /\ pc = "afterLoop"
    /\ isTTY = TRUE
    /\ response1 = SavePointResponse
    /\ expiresIn = Num(MaxExpires)
    /\ attempts = 1
    /\ maxAttempts = Num(MaxExpires)
    /\ accessToken \in Tokens
    /\ envFile \in SaveFiles
    /\ env0 = envFile
    /\ writes = 0
    /\ exitCode = 0
    /\ console = SavePointConsole
    /\ now = 0
    /\ requests = 1
    /\ responses = <<[threw |-> FALSE, access_token |-> accessToken, error |-> Absent]>>
    /\ sleeps = <<>>
    /\ rawMode = FALSE
    /\ deviceRequests = 1
    /\ opened = TRUE
    /\ reads = 0
    /\ ctrlC = ""
    /\ approvedAt = NotApproved
    /\ sent = <<TokenRequest(SavePointResponse)>>
    /\ lastRun = NoLastRun

\* the script is run once more on the file the last run left, and reaches
\* line 198 with the token of the new authorization
RunAgain ==
    /\ pc = "exited"
    /\ pc' = "afterLoop"
    /\ accessToken' \in Tokens
    /\ responses' = <<[threw |-> FALSE, access_token |-> accessToken', error |-> Absent]>>
    /\ env0' = envFile
    /\ writes' = 0
    /\ reads' = 0
    /\ exitCode' = 0
    /\ console' = SavePointConsole
    /\ lastRun' = IF exitCode = 0 /\ writes = 1
                  THEN [file |-> env0, token |-> accessToken]
                  ELSE NoLastRun
    /\ UNCHANGED <<isTTY, response1, expiresIn, attempts, maxAttempts, envFile,
                   now, requests, sleeps, rawMode, deviceRequests, opened, ctrlC,
                   approvedAt, sent>>

NextSave ==
    \/ SaveToken
    \/ SaveReadFails
    \/ SaveWriteFails
    \/ RunAgain

SaveSpec == InitSave /\ [][NextSave]_vars

(***************************************************************************)
(* Vocabulary of the claims.                                               *)
(***************************************************************************)
\* the answers of the token endpoint as its documentation gives them:
\* either an access token or an error
Granted(r) == ~r.threw /\ r.access_token # Absent
IsError(r, e) == ~r.threw /\ r.access_token = Absent /\ r.error = e
Pending(r) == IsError(r, "authorization_pending")
\* a body of unexpected shape, or a network-level failure
Transient(r) == r.threw \/ IsError(r, Absent)

Printed(msg) == \E l \in console : l.msg = msg
DeniedMsg == "Authorization was denied. Please run the script again if you want to authorize."
ExpiredMsg == "Device code has expired. Please run the script again."
TimedOutMsg == "Timed out waiting for authorization"
SuccessMsg == "Authorization successful!"
SavedMsg == "Token saved to .env file successfully"
SaveFailedMsg == "Failed to save token to .env file"

\* the GITHUB_OAUTH_TOKEN entries of a file
TokenEntries(file) == SelectSeq(Split(ReadEnv(file)), StartsWithPrefix)

\* a line of a .env file that sets GITHUB_OAUTH_TOKEN
IsTokenEntry(line) == line # <<>> /\ Head(line) = TokenPrefix
\* a line made of nothing, or of white space only
IsBlankLine(line) == \A i \in 1..Len(line) : line[i] = Blank
\* the lines of a text: what the newlines separate, the empty piece after
\* a final newline not being a line
TextLines(raw) ==
    LET s == Split(raw)
    IN  IF s[Len(s)] = <<>> THEN SubSeq(s, 1, Len(s) - 1) ELSE s
IsUnrelated(line) == ~IsTokenEntry(line)
IsSetting(line) == ~IsTokenEntry(line) /\ ~IsBlankLine(line)
\* the run wrote .env and reported success
SaveSucceeded == pc = "exited" /\ exitCode = 0 /\ writes = 1
\* the run tried to save and reported failure
SaveFailed == pc = "exited" /\ Printed(SaveFailedMsg)

\* the device authorization is in force and the loop's arithmetic is on
\* the integers the endpoint documents
ValidBudget ==
    /\ IsNum(response1.expires_in) /\ response1.expires_in.v > 0
    /\ IsNum(response1.interval) /\ response1.interval.v >= 1

(***************************************************************************)
(* C1.  No token request is issued at or after the expiry deadline of the  *)
(* device authorization: whenever a token request has just been sent, the *)
(* time elapsed since the authorization was issued (prompt, browser wait, *)
(* pauses and sleeps included) is less than expires_in.                    *)
(***************************************************************************)
C1_NoRequestAtOrAfterDeadline ==
    pc = "fetch" => JSLess(now, response1.expires_in)

(***************************************************************************)
(* C2.  If the first k polls are answered authorization_pending and poll   *)
(* k+1 carries an access token tok, exactly k+1 token requests are issued, *)
(* the flow holds tok as its result, and what it stores is tok: after a   *)
(* successful save the file's only GITHUB_OAUTH_TOKEN entry is tok, and   *)
(* the only other way the run ends is the reported save failure.           *)
(***************************************************************************)
C2_PendingThenGranted ==
    \A n \in 1..Len(responses) :
        (/\ Granted(responses[n])
         /\ \A m \in 1..(n - 1) : Pending(responses[m]))
        => /\ n = Len(responses)
           /\ requests = n
           /\ accessToken = responses[n].access_token
           /\ Printed(SuccessMsg)
           /\ ~Printed(DeniedMsg) /\ ~Printed(ExpiredMsg) /\ ~Printed(TimedOutMsg)
           /\ pc \in {"afterLoop", "exited"}
           /\ pc = "exited" =>
                 \/ /\ exitCode = 0
                    /\ Printed(SavedMsg)
                    /\ TokenEntries(envFile) = <<(<<TokenPrefix, responses[n].access_token>>)>>
                 \/ /\ exitCode = 1
                    /\ Printed(SaveFailedMsg)

C2_Witness ==
    /\ Len(responses) = 3
    /\ Pending(responses[1]) /\ Pending(responses[2]) /\ Granted(responses[3])
    /\ responses[3].access_token = "gho_tok2"
    /\ pc = "exited" /\ exitCode = 0
    /\ env0 # NoFile

(***************************************************************************)
(* C3.  After slow_down the interval is raised for every later sleep: for  *)
(* the answers [slow_down, authorization_pending, token] the wait between *)
(* the second and the third poll is strictly greater than the initial     *)
(* interval.                                                               *)
(***************************************************************************)
C3_SlowDownRaisesLaterSleeps ==
    (/\ Len(responses) >= 3
     /\ IsError(responses[1], "slow_down")
     /\ Pending(responses[2])
     /\ Granted(responses[3]))
    => sleeps[2] > SleepSeconds(response1)

(***************************************************************************)
(* C4.  A poll answered access_denied is the last one: the run has exited  *)
(* with code 1 and the denial message, no further token request was       *)
(* issued, .env was not written, and neither the expiry nor the timeout   *)
(* message was printed.                                                    *)
(***************************************************************************)
C4_DeniedEndsFlow ==
    \A n \in 1..Len(responses) :
        IsError(responses[n], "access_denied")
        => /\ n = Len(responses)
           /\ requests = n
           /\ pc = "exited" /\ exitCode = 1
           /\ Printed(DeniedMsg)
           /\ ~Printed(ExpiredMsg) /\ ~Printed(TimedOutMsg) /\ ~Printed(SuccessMsg)
           /\ writes = 0 /\ envFile = env0
           /\ accessToken = Absent

C4_Witness ==
    /\ Len(responses) = 3
    /\ IsError(responses[3], "access_denied")
    /\ pc = "exited"
    /\ env0 # NoFile

(***************************************************************************)
(* C5.  A poll answered expired_token is the last one: the run has exited  *)
(* with code 1 and the expiry message, no further token request was       *)
(* issued, .env was not written, and no other result was printed.          *)
(***************************************************************************)
C5_ExpiredTokenEndsFlow ==
    \A n \in 1..Len(responses) :
        IsError(responses[n], "expired_token")
        => /\ n = Len(responses)
           /\ requests = n
           /\ pc = "exited" /\ exitCode = 1
           /\ Printed(ExpiredMsg)
           /\ ~Printed(DeniedMsg) /\ ~Printed(TimedOutMsg) /\ ~Printed(SuccessMsg)
           /\ writes = 0 /\ envFile = env0
           /\ accessToken = Absent

C5_Witness ==
    /\ Len(responses) = 2
    /\ IsError(responses[2], "expired_token")
    /\ pc = "exited"
    /\ env0 # NoFile

(***************************************************************************)
(* C6.  A run produces one terminal result: at most one of the terminal    *)
(* messages (token granted, denied, expired, timed out, interrupted at    *)
(* the prompt, setup failure, refusal to start) is ever printed, and once *)
(* one is printed no token request is issued and no other is added.        *)
(***************************************************************************)
TerminalMsgs ==
    {SuccessMsg, DeniedMsg, ExpiredMsg, TimedOutMsg, "^C",
     "Failed to request device code from GitHub", "Unexpected error",
     "Invalid response from GitHub device authorization endpoint",
     "Not running in a TTY environment"}

Results == {l.msg : l \in console} \cap TerminalMsgs

C6_OneTerminalResult ==
    [][/\ Cardinality(Results') <= 1
       /\ Results # {} => /\ requests' = requests
                          /\ pc' # "fetch"
                          /\ Results' = Results]_vars

C6_Witness ==
    /\ Results = {DeniedMsg}
    /\ requests = 3
    /\ pc = "exited"

(***************************************************************************)
(* C7.  A poll that ends with a body of unexpected shape or with a         *)
(* network-level error does not end the run: the script goes on to the    *)
(* normal sleep with nothing but the console changed, as after            *)
(* authorization_pending, the run can only end later by the timeout, and  *)
(* a later poll that carries a token still gives success.                  *)
(***************************************************************************)
C7_TransientStep ==
    (/\ pc = "fetch"
     /\ Len(responses') = Len(responses) + 1
     /\ Transient(responses'[Len(responses')]))
    => /\ pc' = "sleep"
       /\ UNCHANGED <<attempts, requests, expiresIn, maxAttempts, accessToken,
                      envFile, writes, exitCode>>

C7_TransientState ==
    \A n \in 1..Len(responses) :
        Transient(responses[n])
        => /\ (n = Len(responses) /\ pc = "exited")
                 => (Printed(TimedOutMsg) /\ exitCode = 1)
           /\ (n < Len(responses) \/ pc \in {"loop", "afterLoop", "exited"})
                 => sleeps[n] = SleepSeconds(response1)
           /\ attempts = requests
           /\ \A m \in (n + 1)..Len(responses) :
                 Granted(responses[m])
                 => /\ accessToken = responses[m].access_token
                    /\ Printed(SuccessMsg)
                    /\ ~Printed(TimedOutMsg)
                    /\ pc \in {"afterLoop", "exited"}
                    /\ pc = "exited" =>
                          \/ exitCode = 0 /\ Printed(SavedMsg)
                          \/ exitCode = 1 /\ Printed(SaveFailedMsg)

C7_TransientDoesNotEndFlow == [](C7_TransientState) /\ [][C7_TransientStep]_vars

C7_Witness ==
    /\ Len(responses) = 3
    /\ responses[1].threw
    /\ IsError(responses[2], Absent)
    /\ Granted(responses[3])
    /\ pc = "exited" /\ exitCode = 0

(***************************************************************************)
(* C8.  When every poll was answered authorization_pending and the run has *)
(* ended, it ended by the timeout: the timeout message, exit code 1, no   *)
(* exception reached main().catch, and .env was not written.               *)
(***************************************************************************)
C8_AllPendingTimesOut ==
    (/\ Len(responses) >= 1
     /\ \A n \in 1..Len(responses) : Pending(responses[n])
     /\ pc \in {"afterLoop", "exited"})
    => /\ accessToken = Absent
       /\ writes = 0 /\ envFile = env0
       /\ ~Printed("Unexpected error")
       /\ ~Printed(SuccessMsg) /\ ~Printed(SavedMsg)
       /\ pc = "exited" => (exitCode = 1 /\ Printed(TimedOutMsg))

C8_Witness ==
    /\ Len(responses) = 3
    /\ \A n \in 1..Len(responses) : Pending(responses[n])
    /\ pc = "exited"
    /\ Printed(TimedOutMsg)
    /\ env0 # NoFile

(***************************************************************************)
(* C9.  With integer expires_in > 0 and interval >= 1, whatever the token  *)
(* endpoint answers, a run issues at most ceil(expires_in / interval) + 1 *)
(* token requests.                                                         *)
(***************************************************************************)
CeilDiv(a, b) == (a + b - 1) \div b

C9_RequestBound ==
    ValidBudget
    => requests <= CeilDiv(response1.expires_in.v, response1.interval.v) + 1

C9_Witness ==
    /\ ValidBudget
    /\ response1.expires_in.v = 3 /\ response1.interval.v = 1
    /\ requests = 3
    /\ pc = "exited"
    /\ Printed(TimedOutMsg)

(***************************************************************************)
(* C10.  A device-authorization response that lacks any of device_code,    *)
(* user_code, verification_uri, expires_in, interval is fatal: the run    *)
(* exits with code 1 before the user code is displayed, before the prompt *)
(* and before any token request.                                           *)
(***************************************************************************)
MissingField(r) ==
    \/ r.user_code = Absent \/ r.device_code = Absent \/ r.verification_uri = Absent
    \/ r.expires_in = Undefined \/ r.interval = Undefined

C10_AllFiveFieldsRequired ==
    (response1 # NoResponse /\ pc # "validate" /\ MissingField(response1))
    => /\ pc = "exited" /\ exitCode = 1
       /\ ~Printed("COPY THIS CODE: ")
       /\ requests = 0

(***************************************************************************)
(* C11.  The device-code request is sent at most once per run.  When it    *)
(* fails (fetch throws, the status is not ok, or the body is not JSON)    *)
(* the run exits with code 1 before anything else happens: no user code   *)
(* shown, no browser, no token request, .env neither read nor written.     *)
(***************************************************************************)
Request1FailedMsg == "Failed to request device code from GitHub"
UnexpectedErrorMsg == "Unexpected error"

C11_DeviceRequestFailureIsFatal ==
    /\ deviceRequests <= 1
    /\ (\/ Printed(Request1FailedMsg)
        \/ Printed(UnexpectedErrorMsg)
        \/ (isTTY /\ pc \notin {"entry", "request1", "killed"} /\ response1 = NoResponse))
       => /\ Printed(Request1FailedMsg) \/ Printed(UnexpectedErrorMsg)
          /\ pc = "exited" /\ exitCode = 1
          /\ deviceRequests = 1
          /\ requests = 0
          /\ ~opened
          /\ ~Printed("COPY THIS CODE: ")
          /\ reads = 0 /\ writes = 0 /\ envFile = env0

C11_Witness ==
    /\ Printed(UnexpectedErrorMsg)
    /\ pc = "exited"
    /\ deviceRequests = 1
    /\ env0 # NoFile

(***************************************************************************)
(* C12.  Ctrl+C during the inter-poll sleep (the 1 s pause after slow_down *)
(* included) ends the run at once: the process is gone in the same        *)
(* instant, no token request is outstanding, and nothing happens after    *)
(* it: no request, no output, no write.                                    *)
(***************************************************************************)
C12_Interrupted == ctrlC \in {"pause", "sleep"}

C13_CtrlCAtPromptCancels ==
    ctrlC = "prompt"
    => /\ pc = "exited" /\ exitCode = 1
       /\ Results = {"^C"}
       /\ ~opened
       /\ requests = 0
       /\ reads = 0 /\ writes = 0 /\ envFile = env0

C13_Witness ==
    /\ ctrlC = "prompt"
    /\ Printed("^C")
    /\ Printed("COPY THIS CODE: ")
    /\ pc = "exited"

(***************************************************************************)
(* C14, as stated.  After a successful save every line of the old file     *)
(* that is not a GITHUB_OAUTH_TOKEN entry is found on the same line        *)
(* number of the new file with the same text, and the new file has as     *)
(* many such lines as the old one.                                         *)
(***************************************************************************)
C14_UnrelatedLinesInPlace ==
    SaveSucceeded =>
        LET old == TextLines(ReadEnv(env0))
            new == TextLines(envFile)
        IN  /\ \A i \in 1..Len(old) :
                   IsUnrelated(old[i]) => (i <= Len(new) /\ new[i] = old[i])
            /\ Len(SelectSeq(new, IsUnrelated)) = Len(SelectSeq(old, IsUnrelated))

(***************************************************************************)
(* C14, amended.  After a successful save the new file is the old file's   *)
(* unrelated lines that are not blank, each with its text unchanged, in    *)
(* their old order and each as often as before, followed by the token     *)
(* entry.  Blank and whitespace-only lines are dropped, the file no longer *)
(* ends in a newline, and a kept line moves up by the number of blank     *)
(* lines and token entries that stood before it.                           *)
(***************************************************************************)
C14_SettingsKeptInOrder ==
    SaveSucceeded =>
        LET old == TextLines(ReadEnv(env0))
            new == TextLines(envFile)
        IN  /\ new = SelectSeq(old, IsSetting) \o <<(<<TokenPrefix, accessToken>>)>>
            /\ Split(envFile) = new

C14_Witness ==
    /\ SaveSucceeded
    /\ LET old == TextLines(ReadEnv(env0))
           new == TextLines(envFile)
       IN  /\ Len(old) = MaxLines
           /\ IsBlankLine(old[1])
           /\ IsSetting(old[2]) /\ new[1] = old[2]
           /\ IsSetting(old[3]) /\ new[2] = old[3] /\ old[3] # old[2]

(***************************************************************************)
(* C15.  After every successful save, whatever the file held before and    *)
(* however many runs came before, the file has exactly one                 *)
(* GITHUB_OAUTH_TOKEN entry (a line that starts with GITHUB_OAUTH_TOKEN=), *)
(* its value is the token just saved, and no other token value is left    *)
(* anywhere in the file.                                                   *)
(***************************************************************************)
C15_OneEntryAfterSave ==
    SaveSucceeded =>
        /\ SelectSeq(TextLines(envFile), IsTokenEntry) = <<(<<TokenPrefix, accessToken>>)>>
        /\ \A i \in 1..Len(envFile) :
               envFile[i] \in Tokens \cup {"gho_old"} => envFile[i] = accessToken

\* the second save of two: the file held the token of an earlier run
C15_Witness ==
    /\ SaveSucceeded
    /\ \E t \in Tokens \ {accessToken} :
           \E i \in 1..Len(TextLines(ReadEnv(env0))) :
               TextLines(ReadEnv(env0))[i] = <<TokenPrefix, t>>
    /\ \E i \in 1..Len(envFile) : envFile[i] = "EDITOR=vim"

(***************************************************************************)
(* C16.  A run that obtained a token and has ended has either stored it    *)
(* (exit 0, the token is the file's GITHUB_OAUTH_TOKEN entry) or, the      *)
(* save having failed, printed it as GITHUB_OAUTH_TOKEN=<token> (exit 1).  *)
(***************************************************************************)
C16_TokenStoredOrShown ==
    (pc = "exited" /\ accessToken # Absent) =>
        \/ /\ exitCode = 0
           /\ Printed(SavedMsg)
           /\ SelectSeq(TextLines(envFile), IsTokenEntry) = <<(<<TokenPrefix, accessToken>>)>>
        \/ /\ exitCode = 1
           /\ Printed(SaveFailedMsg)
           /\ Line(TokenPrefix, {accessToken}) \in console

C16_Witness ==
    /\ pc = "exited"
    /\ accessToken # Absent
    /\ writes = 1
    /\ Printed(SaveFailedMsg)
    /\ \A i \in 1..Len(envFile) : envFile[i] # accessToken

(***************************************************************************)
(* C17.  After a save that failed, .env holds either all of what it held   *)
(* before the run or all of the new content.  Stated for the runs that    *)
(* found a .env file, where a cut-short write loses what the file held.    *)
(***************************************************************************)
C17_NoPartialWrite ==
    (SaveFailed /\ env0 # NoFile) =>
        \/ envFile = env0
        \/ envFile = EnvResult(ReadEnv(env0), accessToken)

(***************************************************************************)
(* C18, as stated.  The run exits with 0 exactly when a token was          *)
(* obtained, and with 1 otherwise.                                         *)
(***************************************************************************)
C18_ZeroIffTokenObtained ==
    pc = "exited" =>
        /\ exitCode \in {0, 1}
        /\ exitCode = 0 <=> accessToken # Absent

(***************************************************************************)
(* C18, amended.  A run that ends by process.exit ends with 0 or 1.  It    *)
(* ends with 0 exactly when the token was obtained and saved, or when      *)
(* stdin is not a terminal and the run was skipped.  It ends with 1 when   *)
(* the authorization was denied, expired or timed out, on Ctrl+C at the    *)
(* prompt, when the device-code request failed or its answer was invalid, *)
(* on an unexpected error, and when the token was obtained but not saved.  *)
(***************************************************************************)
InvalidResponseMsg == "Invalid response from GitHub device authorization endpoint"

C18_ExitCodes ==
    pc = "exited" =>
        /\ exitCode \in {0, 1}
        /\ exitCode = 0 <=>
              \/ ~isTTY
              \/ /\ accessToken # Absent
                 /\ Printed(SavedMsg)
                 /\ writes = 1
        /\ \/ Printed(DeniedMsg) \/ Printed(ExpiredMsg) \/ Printed(TimedOutMsg)
           \/ Printed("^C")
           \/ Printed(Request1FailedMsg) \/ Printed(InvalidResponseMsg)
           \/ Printed(UnexpectedErrorMsg)
           \/ Printed(SaveFailedMsg)
           \/ exitCode = 0

\* the token was obtained, and the run ends with 1
C18_Witness ==
    /\ pc = "exited"
    /\ exitCode = 1
    /\ Printed(SuccessMsg)
    /\ accessToken \in Tokens
    /\ Len(responses) >= 2

(***************************************************************************)
(* C19.  When stdin is not a terminal nothing of the flow happens: no      *)
(* device-code request, no token request, no user code or instructions    *)
(* shown, no browser, .env neither read nor written.  The run prints that *)
(* it is skipped, and ends.                                                *)
(***************************************************************************)
C19_NotTTYRefusesToStart ==
    ~isTTY =>
        /\ pc \in {"entry", "exited"}
        /\ deviceRequests = 0
        /\ requests = 0
        /\ response1 = NoResponse
        /\ console \subseteq {Line("Not running in a TTY environment", {})}
        /\ ~opened
        /\ reads = 0 /\ writes = 0 /\ envFile = env0
        /\ accessToken = Absent

C19_Witness ==
    /\ ~isTTY
    /\ pc = "exited"
    /\ Printed("Not running in a TTY environment")
    /\ env0 # NoFile

(***************************************************************************)
(* C20.  At most one token request is outstanding at any moment, and only  *)
(* while the script awaits it.  A request is sent only when every earlier *)
(* one has been answered (or has thrown), the answer has been classified  *)
(* and reported, and the sleep that follows it is over.                    *)
(***************************************************************************)
C20_Outstanding == requests - Len(responses)

C20_PollsAreSequential ==
    /\ [](/\ C20_Outstanding \in {0, 1}
          /\ C20_Outstanding = 1 => pc \in {"fetch", "killed"}
          /\ pc = "fetch" => C20_Outstanding = 1)
    /\ [][requests' # requests =>
             /\ requests' = requests + 1
             /\ C20_Outstanding = 0
             /\ Len(sleeps) = requests
             /\ pc = "loop" /\ pc' = "fetch"]_vars

C20_Witness ==
    /\ requests = 3
    /\ pc = "fetch"
    /\ Len(responses) = 2
    /\ Transient(responses[1])
    /\ IsError(responses[2], "slow_down")

(***************************************************************************)
(* C21.  Between the answer to one token request and the next request the  *)
(* script waits at least the interval of the device response, in whole    *)
(* seconds, whatever the answer was; with an interval of one second or    *)
(* more the wait is never zero.  Token requests are sent only with a      *)
(* numeric interval, only from the loop head, and the loop head is        *)
(* reached again only through that wait.                                   *)
(***************************************************************************)
C21_Interval == response1.interval.v

C21_SpacingAtLeastInterval ==
    /\ [](requests >= 1 =>
            /\ IsNum(response1.interval)
            /\ \A n \in 1..(requests - 1) :
                  /\ n <= Len(sleeps)
                  /\ sleeps[n] >= C21_Interval
                  /\ C21_Interval >= 1 => sleeps[n] >= 1)
    /\ [][requests' # requests => pc = "loop"]_vars
    /\ [][(pc' = "loop" /\ pc # "loop" /\ requests >= 1) =>
             /\ pc = "sleep"
             /\ now' >= now + C21_Interval]_vars

C21_Witness ==
    /\ requests = 2 /\ Len(responses) = 2
    /\ IsNum(response1.interval) /\ C21_Interval = MaxInterval
    /\ responses[1].threw
    /\ Granted(responses[2])
    /\ sleeps = <<MaxInterval>>
    /\ now >= MaxInterval

(***************************************************************************)
(* C22.  The wait before a token request is never shorter than the wait    *)
(* before an earlier token request of the same run.                        *)
(***************************************************************************)
C22_SpacingNeverShrinks ==
    \A m, n \in 1..(requests - 1) :
        m < n => sleeps[m] <= sleeps[n]

(***************************************************************************)
(* C23.  A token request does not block the run forever: whenever the      *)
(* script waits for the answer to a token request, it later stops waiting *)
(* for it, answer or no answer.                                            *)
(***************************************************************************)
C23_TokenRequestReturns == (pc = "fetch") ~> (pc # "fetch")

(***************************************************************************)
(* C24.  .env never holds the device code or the user code.  Whatever a    *)
(* run writes is made of what the file held before, newlines, the key     *)
(* GITHUB_OAUTH_TOKEN= and the access token.  A run that has not obtained *)
(* a token does not write .env at all.                                     *)
(***************************************************************************)
C24_Units(file) == {file[i] : i \in 1..Len(file)}

C24_OnlyTokenStored ==
    /\ C24_Units(envFile) \cap (UserCodes \cup DeviceCodes) = {}
    /\ C24_Units(envFile) \subseteq
          C24_Units(ReadEnv(env0)) \cup C24_Units(NoFile)
              \cup {NL, TokenPrefix, accessToken}
    /\ accessToken = Absent => (writes = 0 /\ envFile = env0)

C24_Witness ==
    /\ pc = "exited" /\ exitCode = 0
    /\ writes = 1
    /\ response1.device_code \in DeviceCodes
    /\ response1.user_code \in UserCodes
    /\ accessToken \in C24_Units(envFile)
    /\ envFile # env0

(***************************************************************************)
(* C25.  The steps come in one order.  The device code is requested        *)
(* before anything else; the user code is displayed after the answer and  *)
(* leads to the prompt; at the prompt nothing is opened and nothing is    *)
(* polled; open() is called only on leaving the prompt with a key other   *)
(* than Ctrl+C; a token request is sent only after open() was called.      *)
(***************************************************************************)
C25_Shown == Printed("COPY THIS CODE: ")

C25_StepsInOrder ==
    /\ [](/\ pc = "keypress" => (C25_Shown /\ ~opened /\ requests = 0)
          /\ C25_Shown => (deviceRequests = 1 /\ response1 # NoResponse)
          /\ opened => (C25_Shown /\ ctrlC # "prompt")
          /\ requests >= 1 => opened)
    /\ [][deviceRequests' # deviceRequests =>
             (pc = "entry" /\ ~C25_Shown /\ ~opened /\ requests = 0)]_vars
    /\ [][(~C25_Shown /\ C25_Shown') =>
             (pc = "validate" /\ pc' = "keypress" /\ ~opened' /\ requests' = 0)]_vars
    /\ [][(~opened /\ opened') => (pc = "keypress" /\ pc' = "open")]_vars
    /\ [][requests' # requests => (opened /\ pc \notin {"keypress", "open"})]_vars

C25_Witness ==
    /\ pc = "fetch"
    /\ requests = 1
    /\ opened
    /\ C25_Shown
    /\ now = MaxKeyWait + OpenTimeout

(***************************************************************************)
(* C26.  After the user has approved, the next token request is sent at    *)
(* most `interval` seconds after the approval.                             *)
(***************************************************************************)
C26_NextRequestWithinInterval ==
    (approvedAt # NotApproved /\ pc = "fetch") =>
        now - approvedAt <= response1.interval.v

(***************************************************************************)
(* C27.  A run that leaves the loop without a token and without a          *)
(* terminal answer of the endpoint leaves it because the expiry budget is *)
(* used up: the countdown expiresIn is no longer positive.  Stated for    *)
(* the runs that polled at least once.                                     *)
(***************************************************************************)
C27_StopsOnlyOnExpiry ==
    (pc = "afterLoop" /\ accessToken = Absent /\ ValidBudget /\ requests >= 1)
    => ~JSPositive(expiresIn)

(***************************************************************************)
(* C28.  A run whose token requests were all answered with a body of       *)
(* unexpected shape, until the budget ran out, ends with a result other   *)
(* than the one of a run that got only authorization_pending, which is    *)
(* the timeout message with exit code 1 (C8).                              *)
(***************************************************************************)
C28_Malformed(r) == ~r.threw /\ r.access_token = Absent /\ r.error = Absent

C28_MalformedEndsAsFailed ==
    (/\ pc = "exited"
     /\ ValidBudget
     /\ responses # <<>>
     /\ \A n \in 1..Len(responses) : C28_Malformed(responses[n]))
    => <<Results, exitCode>> # <<{TimedOutMsg}, 1>>

(***************************************************************************)
(* C29.  Nothing written to the console shows the device code.             *)
(***************************************************************************)
C29_DeviceCodeNeverShown ==
    \A l \in console : l.shows \cap DeviceCodes = {}

(***************************************************************************)
(* C30.  The wait after an answer is the interval, plus one second when    *)
(* the answer was slow_down and only then: the wait after a later answer  *)
(* is the interval again.  The pause of one second leaves the expiry      *)
(* budget alone: the budget is expires_in less one interval for each      *)
(* completed turn.  The device response, and so its interval, is never    *)
(* changed once received.                                                  *)
(***************************************************************************)
C30_TurnsDone == IF pc = "loop" THEN requests ELSE requests - 1

C30_SlowDownAddsOneSecondOnce ==
    /\ [](requests >= 1 =>
            /\ IsNum(response1.interval) /\ IsNum(response1.expires_in)
            /\ \A n \in 1..(requests - 1) :
                  sleeps[n] = response1.interval.v
                              + (IF IsError(responses[n], "slow_down") THEN 1 ELSE 0)
            /\ pc \in {"loop", "fetch", "pause", "sleep"} =>
                  expiresIn = Num(response1.expires_in.v
                                  - C30_TurnsDone * response1.interval.v))
    /\ [][(pc = "pause" /\ pc' = "sleep") =>
             (now' = now + 1 /\ expiresIn' = expiresIn)]_vars
    /\ [][response1 # NoResponse => response1' = response1]_vars

C30_Witness ==
    /\ requests = 3
    /\ Len(responses) = 2
    /\ IsError(responses[1], "slow_down")
    /\ Pending(responses[2])
    /\ response1.interval = Num(1)
    /\ sleeps = <<2, 1>>
    /\ expiresIn = Num(MaxExpires - 2)

(***************************************************************************)
(* C31.  A run sends one device-authorization request.  Every token        *)
(* request of the run carries the device code of that request's answer,   *)
(* the client id of line 14 and the device-code grant type; the answer is *)
(* not changed once received.                                              *)
(***************************************************************************)
C31_OneAuthorizationPerRun ==
    /\ [](/\ deviceRequests <= 1
          /\ Len(sent) = requests
          /\ requests >= 1 => (deviceRequests = 1 /\ response1.device_code \in DeviceCodes)
          /\ \A n \in 1..Len(sent) :
                /\ sent[n].device_code = response1.device_code
                /\ sent[n].client_id = "01ab8ac9400c4e429b23"
                /\ sent[n].grant_type = "urn:ietf:params:oauth:grant-type:device_code")
    /\ [][response1 # NoResponse => response1' = response1]_vars
    /\ [][sent # <<>> => SubSeq(sent', 1, Len(sent)) = sent]_vars

C31_Witness ==
    /\ Len(sent) = 3
    /\ response1.device_code = "dc-71c0a1f2e9b44d06"
    /\ IsError(responses[1], "slow_down")
    /\ \A n \in 1..3 : sent[n].device_code = "dc-71c0a1f2e9b44d06"

(***************************************************************************)
(* C33, as stated.  With integer expires_in > 0 and interval >= 1, a run   *)
(* that got as far as the loop has sent at most floor(expires_in /        *)
(* interval) token requests when it exits, and it exits in one of four    *)
(* ways: token saved, denied, expired, timed out.                          *)
(***************************************************************************)
C33_Floor == response1.expires_in.v \div response1.interval.v

C33_ExitsInFourWays ==
    (pc = "exited" /\ ValidBudget) =>
        /\ requests <= C33_Floor
        /\ \/ exitCode = 0 /\ Printed(SavedMsg)
           \/ Printed(DeniedMsg)
           \/ Printed(ExpiredMsg)
           \/ Printed(TimedOutMsg)

(***************************************************************************)
(* C33, amended.  With integer expires_in > 0 and interval >= 1, and every *)
(* token request returning or failing in finite time, a run that has      *)
(* reached the loop sends at most floor(expires_in / interval) token      *)
(* requests and comes to an end: it exits with the token saved, with the  *)
(* save reported as failed (the token printed), denied, expired or timed  *)
(* out, or it is ended by an interrupt.                                    *)
(***************************************************************************)
C33_LoopTerminates ==
    /\ [](ValidBudget => requests <= C33_Floor)
    /\ []((pc = "exited" /\ ValidBudget) =>
            \/ exitCode = 0 /\ Printed(SavedMsg)
            \/ exitCode = 1 /\ Printed(SaveFailedMsg)
            \/ exitCode = 1 /\ Printed(DeniedMsg)
            \/ exitCode = 1 /\ Printed(ExpiredMsg)
            \/ exitCode = 1 /\ Printed(TimedOutMsg))
    /\ (pc = "loop" /\ ValidBudget) ~> (pc \in {"exited", "killed"})

C33_Witness ==
    /\ pc = "exited"
    /\ ValidBudget
    /\ requests = MaxExpires /\ C33_Floor = MaxExpires
    /\ Printed(SaveFailedMsg)
    /\ Pending(responses[1])

(***************************************************************************)
(* C34.  With integer expires_in >= 0 and interval >= 1, a run that ends   *)
(* with the timeout message has sent exactly floor(expires_in / interval) *)
(* token requests.  With expires_in < interval that is none: the timeout  *)
(* is reported straight after the browser step, without any sleep and     *)
(* with the whole budget expires_in unspent.                               *)
(***************************************************************************)
C34_IntegerBudget ==
    /\ IsNum(response1.expires_in) /\ response1.expires_in.v >= 0
    /\ IsNum(response1.interval) /\ response1.interval.v >= 1

C34_ExactlyFloorRequests ==
    (pc = "exited" /\ Printed(TimedOutMsg) /\ C34_IntegerBudget) =>
        /\ requests = response1.expires_in.v \div response1.interval.v
        /\ response1.expires_in.v < response1.interval.v =>
              /\ requests = 0
              /\ sleeps = <<>>
              /\ expiresIn = response1.expires_in
              /\ now <= MaxKeyWait + OpenTimeout

C34_Witness ==
    /\ pc = "exited"
    /\ Printed(TimedOutMsg)
    /\ response1.expires_in = Num(1)
    /\ response1.interval = Num(2)
    /\ requests = 0
    /\ now = 0

(***************************************************************************)
(* C35 as stated.  After a device response with user_code, device_code,    *)
(* expires_in > 0 and interval 0, the requests follow one another with no *)
(* spacing at all: every wait between two token requests lasts 0 seconds. *)
(***************************************************************************)
C35_ZeroInterval ==
    /\ response1 # NoResponse
    /\ ~Falsy(response1.user_code)
    /\ ~Falsy(response1.device_code)
    /\ IsNum(response1.expires_in) /\ response1.expires_in.v > 0
    /\ response1.interval = Num(0)

C35_NoSpacingAtAll ==
    C35_ZeroInterval => \A n \in 1..Len(sleeps) : sleeps[n] = 0

(***************************************************************************)
(* C35, amended.  A device response with user_code, device_code,           *)
(* expires_in > 0 and interval 0 passes validation and makes the poll     *)
(* loop unbounded: the attempt ceiling is infinite, the remaining-time    *)
(* counter keeps the value expires_in, the loop guard never fails (no     *)
(* timeout is ever reported) and the loop is left only with a token, on   *)
(* access_denied or on expired_token.  The token requests follow one      *)
(* another with no spacing other than the one-second pause that follows a *)
(* slow_down answer.                                                       *)
(***************************************************************************)
C35_ZeroIntervalUnbounded ==
    C35_ZeroInterval =>
        /\ ~Printed(InvalidResponseMsg)
        /\ ~Printed(TimedOutMsg)
        /\ pc \in {"loop", "fetch", "pause", "sleep", "afterLoop"} =>
              /\ maxAttempts = Infinity
              /\ expiresIn = response1.expires_in
        /\ pc = "loop" => JSPositive(expiresIn) /\ JSLess(attempts, maxAttempts)
        /\ pc = "afterLoop" => accessToken # Absent
        /\ (pc = "exited" /\ requests > 0) =>
              \/ Granted(responses[requests])
              \/ IsError(responses[requests], "access_denied")
              \/ IsError(responses[requests], "expired_token")
        /\ \A n \in 1..Len(sleeps) :
              \/ sleeps[n] = 0
              \/ IsError(responses[n], "slow_down") /\ sleeps[n] = SlowDownPause

C35_Witness ==
    /\ C35_ZeroInterval
    /\ pc = "fetch"
    /\ requests = MaxPolls
    /\ requests > response1.expires_in.v
    /\ Len(responses) = MaxPolls - 1
    /\ \A n \in 1..Len(responses) : Pending(responses[n])
    /\ now = 0

(***************************************************************************)
(* C36.  The credential file is written at most once in a run, by the      *)
(* step that follows a poll answered with an access token and that ends   *)
(* the run.  Until then, and on every path that obtains no token          *)
(* (non-interactive start, failed setup, interrupt, access_denied,        *)
(* expired_token, timeout), the file has the content it had at the start. *)
(***************************************************************************)
C36_WrittenOnlyWithToken ==
    /\ [](writes <= 1)
    /\ [][(envFile' # envFile \/ writes' # writes) =>
            /\ pc = "afterLoop" /\ pc' = "exited"
            /\ writes = 0 /\ writes' = 1
            /\ accessToken # Absent
            /\ requests > 0 /\ Granted(responses[requests])
            /\ accessToken = responses[requests].access_token]_vars
    /\ [](writes = 0 => envFile = env0)
    /\ []((~Printed(SavedMsg) /\ ~Printed(SaveFailedMsg)) =>
            envFile = env0 /\ writes = 0)

C36_Witness ==
    /\ pc = "exited"
    /\ writes = 1
    /\ envFile # env0
    /\ env0 # NoFile
    /\ Printed(SavedMsg)
    /\ Len(responses) = 2
    /\ Pending(responses[1])

(***************************************************************************)
(* C37.  Saving overwrites: when a run saves the token t2 on the file a    *)
(* run before it left after saving t1 on F, .env is the file that saving   *)
(* t2 on F gives, and with t2 = t1 it is the file the run found.  A saved  *)
(* file has no empty or whitespace-only line, and its last line is the     *)
(* GITHUB_OAUTH_TOKEN entry, with the token just saved.                    *)
(***************************************************************************)
C37_SaveOverwrites ==
    SaveSucceeded =>
        /\ LET ls == Split(envFile)
           IN  /\ \A i \in 1..Len(ls) : ~IsBlankLine(ls[i])
               /\ ls[Len(ls)] = <<TokenPrefix, accessToken>>
        /\ lastRun # NoLastRun =>
              /\ envFile = EnvResult(ReadEnv(lastRun.file), accessToken)
              /\ accessToken = lastRun.token => envFile = env0

C37_Witness ==
    /\ SaveSucceeded
    /\ lastRun # NoLastRun
    /\ lastRun.token # accessToken
    /\ lastRun.file # NoFile
    /\ \E i \in 1..Len(lastRun.file) : lastRun.file[i] = "gho_old"
    /\ \E i \in 1..Len(lastRun.file) : lastRun.file[i] = Blank
    /\ \E i \in 1..Len(lastRun.file) : lastRun.file[i] = "DEBUG=1"
    /\ envFile # env0

(***************************************************************************)
(* C38.  The token is looked at first.  A token response that carries an   *)
(* access_token is the last one of the run and ends the flow in success,  *)
(* whatever its error field: the token is taken, the success is reported, *)
(* neither the denial nor the expiry is, and the run goes on to the save. *)
(* The denial and the expiry are reported only for a response without     *)
(* access_token.                                                           *)
(***************************************************************************)
C38_TokenFirst ==
    /\ \A n \in 1..Len(responses) :
          (~responses[n].threw /\ responses[n].access_token # Absent) =>
              /\ n = Len(responses)
              /\ accessToken = responses[n].access_token
              /\ Printed(SuccessMsg)
              /\ ~Printed(DeniedMsg) /\ ~Printed(ExpiredMsg)
              /\ ~Printed(TimedOutMsg)
              /\ pc \in {"afterLoop", "exited"}
              /\ pc = "exited" => Printed(SavedMsg) \/ Printed(SaveFailedMsg)
    /\ Printed(DeniedMsg) =>
          /\ responses[Len(responses)].access_token = Absent
          /\ responses[Len(responses)].error = "access_denied"
    /\ Printed(ExpiredMsg) =>
          /\ responses[Len(responses)].access_token = Absent
          /\ responses[Len(responses)].error = "expired_token"

C38_Witness ==
    /\ pc = "exited"
    /\ exitCode = 0
    /\ Printed(SavedMsg)
    /\ Len(responses) = 2
    /\ Pending(responses[1])
    /\ responses[2].access_token = "gho_tok2"
    /\ responses[2].error = "expired_token"
    /\ envFile = EnvResult(ReadEnv(env0), "gho_tok2")

(***************************************************************************)
(* C39.  An access token is shown on the console only where the save has   *)
(* failed: then the run ends with exit code 1 and the one token shown is  *)
(* the token obtained.  A run whose save succeeds, and a run that has no  *)
(* token, show no access token, neither one of a token response nor the   *)
(* one of the entry .env had at the start.                                 *)
(***************************************************************************)
C39_TokenValues ==
    ({responses[n].access_token : n \in 1..Len(responses)} \ {Absent})
    \cup {env0[i + 1] : i \in {k \in 1..(Len(env0) - 1) : env0[k] = TokenPrefix}}

C39_Shown == (UNION {l.shows : l \in console}) \cap C39_TokenValues

C39_TokenShownOnlyOnSaveFailure ==
    /\ C39_Shown # {} =>
          /\ pc = "exited" /\ exitCode = 1
          /\ Printed(SaveFailedMsg)
          /\ accessToken # Absent
          /\ C39_Shown = {accessToken}
    /\ (pc = "exited" /\ Printed(SavedMsg)) => C39_Shown = {}
    /\ accessToken = Absent => C39_Shown = {}

C39_Witness ==
    /\ pc = "exited"
    /\ Printed(SaveFailedMsg)
    /\ C39_Shown = {"gho_tok2"}
    /\ env0 # NoFile
    /\ Len(responses) = 2
    /\ Transient(responses[1])

====
